---- MODULE Spec2Model ----
(***************************************************************************)
(* A model of libwyag.py: the object store (object_read / object_write),   *)
(* the payload codecs (kvlm_parse / kvlm_serialize, tree_parse /           *)
(* tree_serialize), name resolution (object_resolve / object_find /        *)
(* ref_resolve) and checkout (cmd_checkout / tree_checkout).               *)
(*                                                                         *)
(* Python bytes and str values are sequences of character codes.  Python   *)
(* indexes are kept 0-based as in the source: At(s, i) is s[i].  A call    *)
(* returns Ok(v) or Raise(e), e the name of the Python exception.          *)
(***************************************************************************)
EXTENDS Integers, Sequences, FiniteSets, TLC

VARIABLES
    dirs,    \* the bucket directories that exist under .git/objects
    files,   \* .git/objects/<bucket>/<name> -> file content, for the files that exist
    refs,    \* reference path under .git -> file content, for the files that exist
    target,  \* the directory tree at the checkout path
    raw,     \* the byte string handed to a codec
    res,     \* the last call: [op, arg, val]
    wr,      \* the concurrent writers of object_write
    rr       \* the walk of ref_resolve

vars == <<dirs, files, refs, target, raw, res, wr, rr>>

(***************************************************************************)
(* Bytes.                                                                  *)
(***************************************************************************)
SP == 32
NL == 10
NUL == 0

Ok(v) == [exc |-> "", val |-> v]
Raise(e) == [exc |-> e, val |-> <<>>]
IsOk(r) == r.exc = ""

Min(S) == CHOOSE x \in S : \A y \in S : x <= y

At(s, i) == s[i + 1]

\* A slice bound as Python normalises it: negative counts from the end, then clamped.
Clamp(s, i) ==
    IF i < 0 THEN (IF Len(s) + i < 0 THEN 0 ELSE Len(s) + i)
    ELSE IF i > Len(s) THEN Len(s) ELSE i

\* s[a:b]
Slice(s, a, b) ==
    LET lo == Clamp(s, a)
        hi == Clamp(s, b)
    IN  IF hi <= lo THEN <<>> ELSE SubSeq(s, lo + 1, hi)

\* s.find(b, start): the lowest index >= start holding byte b, or -1
Find(s, b, start) ==
    LET lo == Clamp(s, start)
        hits == {i \in lo..(Len(s) - 1) : At(s, i) = b}
    IN  IF hits = {} THEN -1 ELSE Min(hits)

\* s.startswith(p)
StartsWith(s, p) == Len(p) <= Len(s) /\ SubSeq(s, 1, Len(p)) = p

\* s.replace(old, new), old non-empty: leftmost non-overlapping occurrences
RECURSIVE Replace(_, _, _)
Replace(s, old, new) ==
    IF Len(s) = 0 THEN <<>>
    ELSE IF StartsWith(s, old)
         THEN new \o Replace(SubSeq(s, Len(old) + 1, Len(s)), old, new)
         ELSE <<s[1]>> \o Replace(Tail(s), old, new)

\* b''.join
RECURSIVE Concat(_)
Concat(ss) == IF ss = <<>> THEN <<>> ELSE Head(ss) \o Concat(Tail(ss))

(***************************************************************************)
(* collections.OrderedDict: a sequence of items in insertion order.  An    *)
(* item is [k, v, list]: list tells whether v is a Python list of byte     *)
(* strings or one byte string.                                             *)
(***************************************************************************)
DictKeys(d) == {d[i].k : i \in 1..Len(d)}

DictIndex(d, key) == CHOOSE i \in 1..Len(d) : d[i].k = key

DictGet(d, key) == d[DictIndex(d, key)]

\* d[key] = item: an existing key keeps its place
DictSet(d, key, v, isList) ==
    LET item == [k |-> key, v |-> v, list |-> isList]
    IN  IF key \in DictKeys(d)
        THEN [d EXCEPT ![DictIndex(d, key)] = item]
        ELSE Append(d, item)

(***************************************************************************)
(* kvlm_parse.  The loop that finds the end of the value is ValueEnd; it   *)
(* yields the index of the closing newline, or the failure of the build.   *)
(***************************************************************************)
RECURSIVE ValueEnd(_, _, _)
ValueEndAt(s, e, wrapped) ==
    IF e + 1 >= Len(s) THEN Raise("IndexError")
    ELSE IF At(s, e + 1) # SP THEN Ok(e)
    ELSE IF e = -1 /\ wrapped THEN Raise("Hang")
    ELSE ValueEnd(s, e, wrapped \/ e = -1)

ValueEnd(s, end, wrapped) == ValueEndAt(s, Find(s, NL, end + 1), wrapped)

\* the dictionary after dct[key] = value, or the value joined to those of the key
KvlmAdd(dct, key, value) ==
    IF key \in DictKeys(dct)
    THEN IF DictGet(dct, key).list
         THEN DictSet(dct, key, Append(DictGet(dct, key).v, value), TRUE)
         ELSE DictSet(dct, key, <<DictGet(dct, key).v, value>>, TRUE)
    ELSE DictSet(dct, key, value, FALSE)

RECURSIVE kvlm_parse(_, _, _)
\* the header line at start, of key s[start:spc], its value ending at fin
KvlmHeaderLine(s, start, dct, spc, fin) ==
    IF ~IsOk(fin) THEN fin
    \* end = -1: the recursive call restarts at 0 and never returns
    ELSE IF fin.val = -1 THEN Raise("RecursionError")
    ELSE kvlm_parse(s, fin.val + 1,
                    KvlmAdd(dct, Slice(s, start, spc),
                            Replace(Slice(s, spc + 1, fin.val), <<NL>>, <<NL>>)))

KvlmAt(s, start, dct, spc, nl) ==
    IF spc < 0 \/ nl < spc
    THEN IF nl # start THEN Raise("AssertionError")
         ELSE Ok(DictSet(dct, <<>>, Slice(s, start + 1, Len(s)), FALSE))
    ELSE KvlmHeaderLine(s, start, dct, spc, ValueEnd(s, start, FALSE))

kvlm_parse(s, start, dct) == KvlmAt(s, start, dct, Find(s, SP, start), Find(s, NL, start))

(***************************************************************************)
(* kvlm_serialize.                                                         *)
(***************************************************************************)
KvlmLine(k, v) == k \o <<SP>> \o Replace(v, <<NL>>, <<NL>>) \o <<NL>>

KvlmItem(item) ==
    IF item.k = <<>> THEN <<>>
    ELSE LET val == IF item.list THEN item.v ELSE <<item.v>>
         IN  Concat([i \in 1..Len(val) |-> KvlmLine(item.k, val[i])])

kvlm_serialize(kvlm) ==
    IF <<>> \notin DictKeys(kvlm) THEN Raise("KeyError")
    ELSE IF DictGet(kvlm, <<>>).list THEN Raise("TypeError")
    ELSE Ok(Concat([i \in 1..Len(kvlm) |-> KvlmItem(kvlm[i])])
            \o <<NL>> \o DictGet(kvlm, <<>>).v)

(***************************************************************************)
(* Python int, for the hash of a tree entry: an unbounded integer is kept  *)
(* as its hexadecimal digits (0..15), most significant first, without      *)
(* leading zeros; zero is the empty sequence.                              *)
(***************************************************************************)
HexChar(d) == IF d < 10 THEN 48 + d ELSE 87 + d

HexVal(c) ==
    IF c >= 48 /\ c <= 57 THEN c - 48
    ELSE IF c >= 97 /\ c <= 102 THEN c - 87
    ELSE IF c >= 65 /\ c <= 70 THEN c - 55
    ELSE -1

RECURSIVE StripZeros(_)
StripZeros(ds) == IF ds # <<>> /\ Head(ds) = 0 THEN StripZeros(Tail(ds)) ELSE ds

\* int.from_bytes(b, "big")
IntFromBytes(b) ==
    StripZeros([i \in 1..(2 * Len(b)) |->
                  IF i % 2 = 1 THEN b[(i + 1) \div 2] \div 16 ELSE b[i \div 2] % 16])

\* hex(n): "0x" and the digits, "0x0" for zero
PyHex(n) ==
    <<48, 120>> \o (IF n = <<>> THEN <<48>> ELSE [i \in 1..Len(n) |-> HexChar(n[i])])

\* int(s, 16) of a string of hexadecimal digits
IntParse16(s) ==
    IF s = <<>> \/ \E i \in 1..Len(s) : HexVal(s[i]) < 0 THEN Raise("ValueError")
    ELSE Ok(StripZeros([i \in 1..Len(s) |-> HexVal(s[i])]))

\* n.to_bytes(width, byteorder="big")
\* digit i of n written with count digits, zeros in front
Digit(n, count, i) == IF i <= count - Len(n) THEN 0 ELSE n[i - (count - Len(n))]

ToBytes(n, width) ==
    IF Len(n) > 2 * width THEN Raise("OverflowError")
    ELSE Ok([i \in 1..width |->
               16 * Digit(n, 2 * width, 2 * i - 1) + Digit(n, 2 * width, 2 * i)])

(***************************************************************************)
(* tree_parse_one, tree_parse, tree_serialize.  A GitTreeLeaf is           *)
(* [mode, path, sha]; sha is a Python str.                                 *)
(***************************************************************************)
GitTreeLeaf(mode, path, sha) == [mode |-> mode, path |-> path, sha |-> sha]

\* s[2:]
From2(s) == Slice(s, 2, Len(s))

\* hex(int.from_bytes(b, "big"))[2:]
ShaOfBytes(b) == From2(PyHex(IntFromBytes(b)))

TreeLeafAt(s, start, x, y) ==
    Ok([pos |-> y + 21,
        data |-> GitTreeLeaf(Slice(s, start, x), Slice(s, x + 1, y),
                             ShaOfBytes(Slice(s, y + 1, y + 21)))])

TreeModeAt(s, start, x) ==
    IF ~(x - start = 5 \/ x - start = 6) THEN Raise("AssertionError")
    ELSE TreeLeafAt(s, start, x, Find(s, NUL, x))

tree_parse_one(s, start) == TreeModeAt(s, start, Find(s, SP, start))

\* the while loop of tree_parse; a position met twice is a loop that never ends
RECURSIVE TreeParseFrom(_, _, _, _)
TreeParseNext(s, pos, ret, seen, one) ==
    IF ~IsOk(one) THEN one
    ELSE TreeParseFrom(s, one.val.pos, Append(ret, one.val.data), seen \cup {pos})

TreeParseFrom(s, pos, ret, seen) ==
    IF ~(pos < Len(s)) THEN Ok(ret)
    ELSE IF pos \in seen THEN Raise("Hang")
    ELSE TreeParseNext(s, pos, ret, seen, tree_parse_one(s, pos))

tree_parse(s) == TreeParseFrom(s, 0, <<>>, {})

\* i.mode + b' ' + i.path + b'\x00' + b, b the hash bytes
TreeItemWith(i, b) ==
    IF ~IsOk(b) THEN b ELSE Ok(i.mode \o <<SP>> \o i.path \o <<NUL>> \o b.val)

\* int(i.sha, 16).to_bytes(width, byteorder="big")
ShaBytes(n, width) == IF ~IsOk(n) THEN n ELSE ToBytes(n.val, width)

TreeItemBytes(i, width) == TreeItemWith(i, ShaBytes(IntParse16(i.sha), width))

RECURSIVE TreeItemsBytes(_, _)
TreeItemsNext(items, ret, one) ==
    IF ~IsOk(one) THEN one ELSE TreeItemsBytes(Tail(items), ret \o one.val)

TreeItemsBytes(items, ret) ==
    IF items = <<>> THEN Ok(ret)
    ELSE TreeItemsNext(items, ret, TreeItemBytes(Head(items), 20))

\* a plausible slip: the hash written with as many bytes as its digits need
RECURSIVE TreeItemsBytesUnpadded(_, _)
TreeItemsNextUnpadded(items, ret, one) ==
    IF ~IsOk(one) THEN one ELSE TreeItemsBytesUnpadded(Tail(items), ret \o one.val)

TreeItemsBytesUnpadded(items, ret) ==
    IF items = <<>> THEN Ok(ret)
    ELSE TreeItemsNextUnpadded(items, ret,
             TreeItemBytes(Head(items), (Len(Head(items).sha) + 1) \div 2))

tree_serialize_unpadded(obj) ==
    IF "items" \notin DOMAIN obj THEN Raise("AttributeError")
    ELSE TreeItemsBytesUnpadded(obj.items, <<>>)

tree_serialize(obj) ==
    IF "items" \notin DOMAIN obj THEN Raise("AttributeError")
    ELSE TreeItemsBytes(obj.items, <<>>)

(***************************************************************************)
(* What the variables hold where a specification does not use them.        *)
(***************************************************************************)
EmptyMap == [x \in {} |-> <<>>]

Absent == [kind |-> "absent"]

NoCall == [op |-> "none", arg |-> <<>>, val |-> Ok(<<>>)]

Call(op, arg, val) == [op |-> op, arg |-> arg, val |-> val]

NoStore == dirs = {} /\ files = EmptyMap /\ refs = EmptyMap /\ target = Absent

\* no call in progress
Idle == [pc |-> "idle"]

NoProcs == wr = Idle /\ rr = Idle

\* all sequences over S of length at most n
RECURSIVE SeqsUpTo(_, _)
SeqsUpTo(S, n) ==
    IF n = 0 THEN {<<>>}
    ELSE LET shorter == SeqsUpTo(S, n - 1)
         IN  shorter \cup {Append(q, x) : q \in shorter, x \in S}

(***************************************************************************)
(* SpecKvlm: kvlm_parse, then kvlm_serialize, on every well-formed KVLM    *)
(* byte string of at most MaxHeaders header lines.                         *)
(***************************************************************************)
MaxHeaders == 3

KvlmKeys == {<<97>>, <<98>>}

\* a value as it stands in the input: plain, empty, folded over two lines
KvlmValues == {<<118>>, <<>>, <<118, NL, SP, 119>>}

KvlmMessages == {<<>>, <<109>>, <<109, SP, 110, NL>>}

KvlmHeader == [key : KvlmKeys, value : KvlmValues]

KvlmBytes(hs, msg) ==
    Concat([i \in 1..Len(hs) |-> hs[i].key \o <<SP>> \o hs[i].value \o <<NL>>])
        \o <<NL>> \o msg

KvlmInputs == {KvlmBytes(hs, m) : hs \in SeqsUpTo(KvlmHeader, MaxHeaders), m \in KvlmMessages}

InitKvlm == raw \in KvlmInputs /\ res = NoCall /\ NoStore /\ NoProcs

KvlmParse ==
    /\ res.op = "none"
    /\ res' = Call("kvlm_parse", raw, kvlm_parse(raw, 0, <<>>))
    /\ UNCHANGED <<dirs, files, refs, target, raw, wr, rr>>

KvlmSerialize ==
    /\ res.op = "kvlm_parse"
    /\ IsOk(res.val)
    /\ res' = Call("kvlm_serialize", res.val.val, kvlm_serialize(res.val.val))
    /\ UNCHANGED <<dirs, files, refs, target, raw, wr, rr>>

NextKvlm == KvlmParse \/ KvlmSerialize

SpecKvlm == InitKvlm /\ [][NextKvlm]_vars

\* C2: kvlm_serialize(kvlm_parse(x)) = x for every well-formed KVLM byte string x,
\* header lines in their order, repeated keys and folded values included.
C2_KvlmRoundTrip == res.op = "kvlm_serialize" => res.val = Ok(raw)

(***************************************************************************)
(* SpecTree: tree_parse, then tree_serialize, on every well-formed tree    *)
(* byte string of at most MaxEntries entries.                              *)
(***************************************************************************)
MaxEntries == 2

TreeModes == {<<49, 48, 48, 54, 52, 52>>, <<52, 48, 48, 48, 48>>}

TreePaths == {<<97>>, <<98, SP, 99>>}

\* 20 raw hash bytes: the leading two, then eighteen more
RawSha(b1, b2, fill) == <<b1, b2>> \o [i \in 1..18 |-> fill]

TreeShas == {RawSha(171, 205, 171), RawSha(1, 35, 171), RawSha(0, 0, 171), RawSha(0, 0, 0)}

TreeEntry == [mode : TreeModes, path : TreePaths, sha : TreeShas]

TreeBytes(es) ==
    Concat([i \in 1..Len(es) |-> es[i].mode \o <<SP>> \o es[i].path \o <<NUL>> \o es[i].sha])

TreeEntrySeqs == SeqsUpTo(TreeEntry, MaxEntries)

\* the well-formed tree byte strings, each with the entries it encodes
TreeTable == {<<TreeBytes(es), es>> : es \in TreeEntrySeqs}

TreeInputs == {p[1] : p \in TreeTable}

InitTree == raw \in TreeInputs /\ res = NoCall /\ NoStore /\ NoProcs

TreeParse ==
    /\ res.op = "none"
    /\ res' = Call("tree_parse", raw, tree_parse(raw))
    /\ UNCHANGED <<dirs, files, refs, target, raw, wr, rr>>

TreeSerialize ==
    /\ res.op = "tree_parse"
    /\ IsOk(res.val)
    /\ res' = Call("tree_serialize", res.val.val, tree_serialize([items |-> res.val.val]))
    /\ UNCHANGED <<dirs, files, refs, target, raw, wr, rr>>

NextTree == TreeParse \/ TreeSerialize

SpecTree == InitTree /\ [][NextTree]_vars

\* C3: tree_serialize of the entries tree_parse(t) returns is t byte for byte, and
\* tree_parse(t) returns as many entries as t encodes, with their modes and paths in
\* the order of t, also when a hash starts with zero bytes or a zero nibble.
C3_TreeRoundTrip ==
    /\ res.op = "tree_parse" =>
           /\ IsOk(res.val)
           /\ \A p \in TreeTable :
                  p[1] = raw =>
                      /\ Len(res.val.val) = Len(p[2])
                      /\ \A i \in 1..Len(p[2]) :
                             /\ res.val.val[i].mode = p[2][i].mode
                             /\ res.val.val[i].path = p[2][i].path
    /\ res.op = "tree_serialize" => res.val = Ok(raw)

\* two entries, the first hash starting with a zero byte, parsed and serialized back
C3_Witness ==
    /\ res.op = "tree_serialize"
    /\ Len(res.arg) = 2
    /\ Len(res.arg[1].sha) < 40
    /\ res.val = Ok(raw)

\* the hexadecimal form of raw bytes, two lowercase digits a byte
HexOf(b) ==
    [i \in 1..(2 * Len(b)) |->
        HexChar(IF i % 2 = 1 THEN b[(i + 1) \div 2] \div 16 ELSE b[i \div 2] % 16)]

\* C12: every entry tree_parse returns for a well-formed tree byte string carries a
\* hash of exactly 40 characters (two for each of the 20 raw bytes), the hexadecimal
\* form of those bytes with its leading zeros, hence with the bucket (2 characters)
\* and the file name (38) under which object_write stores the object.
C12_HashWidth ==
    res.op = "tree_parse" =>
        /\ IsOk(res.val)
        /\ \A p \in TreeTable :
               p[1] = raw =>
                   \A i \in 1..Len(p[2]) :
                       /\ Len(res.val.val[i].sha) = 2 * Len(p[2][i].sha)
                       /\ res.val.val[i].sha = HexOf(p[2][i].sha)
                       /\ Slice(res.val.val[i].sha, 0, 2) = Slice(HexOf(p[2][i].sha), 0, 2)
                       /\ From2(res.val.val[i].sha) = From2(HexOf(p[2][i].sha))

(***************************************************************************)
(* The object store.  A file of .git/objects is named by <<bucket, name>>; *)
(* its content is [codec, data]: the zlib stream of data, or the plain     *)
(* bytes data (an opened, still empty file holds the plain bytes <<>>).    *)
(***************************************************************************)
FmtBlob == <<98, 108, 111, 98>>
FmtTree == <<116, 114, 101, 101>>
FmtCommit == <<99, 111, 109, 109, 105, 116>>
FmtTag == <<116, 97, 103>>

zlib_compress(b) == [codec |-> "zlib", data |-> b]

zlib_decompress(c) == IF c.codec = "zlib" THEN Ok(c.data) ELSE Raise("zlib.error")

MapPut(f, k, v) == [x \in DOMAIN f \cup {k} |-> IF x = k THEN v ELSE f[x]]

\* the value None: a sequence that is no byte string and no path
None == <<-1>>

\* str(n).encode() of n >= 0
RECURSIVE DecStr(_)
DecStr(n) == IF n < 10 THEN <<48 + n>> ELSE DecStr(n \div 10) \o <<48 + (n % 10)>>

RECURSIVE DecValue(_, _)
DecValue(s, acc) == IF s = <<>> THEN acc ELSE DecValue(Tail(s), 10 * acc + (Head(s) - 48))

RECURSIVE StripSpaces(_)
StripSpaces(s) ==
    IF s # <<>> /\ Head(s) = SP THEN StripSpaces(Tail(s))
    ELSE IF s # <<>> /\ s[Len(s)] = SP THEN StripSpaces(SubSeq(s, 1, Len(s) - 1))
    ELSE s

\* int(s) of decimal digits, blanks around them allowed
DecParse(t) ==
    IF t = <<>> \/ \E i \in 1..Len(t) : t[i] < 48 \/ t[i] > 57 THEN Raise("ValueError")
    ELSE Ok(DecValue(t, 0))

IntParse10(s) == DecParse(StripSpaces(s))

\* repo_dir(repo, "objects", bucket, mkdir=mkdir): [exc, val, dirs], dirs the
\* directories afterwards.  The empty bucket names .git/objects itself.
repo_dir(ds, bucket, mkdir) ==
    IF bucket = <<>> \/ bucket \in ds THEN [exc |-> "", val |-> bucket, dirs |-> ds]
    ELSE IF mkdir THEN [exc |-> "", val |-> bucket, dirs |-> ds \cup {bucket}]
    ELSE [exc |-> "", val |-> None, dirs |-> ds]

\* repo_file(repo, "objects", bucket, name, mkdir=mkdir)
RepoFileIn(d, bucket, name) ==
    IF d.val # None
    THEN [exc |-> "", val |-> <<bucket, name>>, dirs |-> d.dirs]
    ELSE [exc |-> "", val |-> None, dirs |-> d.dirs]

repo_file(ds, bucket, name, mkdir) == RepoFileIn(repo_dir(ds, bucket, mkdir), bucket, name)

\* open(path, "rb") and f.read()
OpenRead(fs, path) ==
    IF path = None THEN Raise("TypeError")
    ELSE IF path[2] = <<>> THEN Raise("IsADirectoryError")
    ELSE IF path \notin DOMAIN fs THEN Raise("FileNotFoundError")
    ELSE Ok(fs[path])

\* open(path, "wb"): [exc, files], the file created or emptied
OpenWrite(fs, path) ==
    IF path = None THEN [exc |-> "TypeError", files |-> fs]
    ELSE IF path[2] = <<>> THEN [exc |-> "IsADirectoryError", files |-> fs]
    ELSE [exc |-> "", files |-> MapPut(fs, path, [codec |-> "plain", data |-> <<>>])]

(***************************************************************************)
(* GitObject and its subclasses: an instance is a record of its            *)
(* attributes, fmt (the class attribute) and those deserialize sets.       *)
(***************************************************************************)
GetAttr(obj, a) == IF a \in DOMAIN obj THEN Ok(obj[a]) ELSE Raise("AttributeError")

\* c(repo, data): __init__ calls deserialize(data)
GitBlob(data) == Ok([fmt |-> FmtBlob, blobdata |-> data])

\* self.kvlm = kvlm_parse(data), in GitCommit and in GitTag, which inherits it
WithKvlm(fmt, k) == IF IsOk(k) THEN Ok([fmt |-> fmt, kvlm |-> k.val]) ELSE k

GitCommit(data) == WithKvlm(FmtCommit, kvlm_parse(data, 0, <<>>))

GitTag(data) == WithKvlm(FmtTag, kvlm_parse(data, 0, <<>>))

\* self.items = tree_parse(data)
WithItems(t) == IF IsOk(t) THEN Ok([fmt |-> FmtTree, items |-> t.val]) ELSE t

GitTree(data) == WithItems(tree_parse(data))

SerializeKvlm(k) == IF IsOk(k) THEN kvlm_serialize(k.val) ELSE k

\* GitCommit.serialize, which GitTag inherits: kvlm_serialize(self.kvml)
GitCommit_serialize(obj) == SerializeKvlm(GetAttr(obj, "kvml"))

\* obj.serialize()
Serialize(obj) ==
    IF obj.fmt = FmtBlob THEN GetAttr(obj, "blobdata")
    ELSE IF obj.fmt = FmtTree THEN tree_serialize(obj)
    ELSE GitCommit_serialize(obj)

\* the class chosen by type tag, in object_read and in object_hash
NewObject(fmt, data) ==
    IF fmt = FmtCommit THEN GitCommit(data)
    ELSE IF fmt = FmtTree THEN GitTree(data)
    ELSE IF fmt = FmtTag THEN GitTag(data)
    ELSE IF fmt = FmtBlob THEN GitBlob(data)
    ELSE Raise("Exception: Unknown type")

(***************************************************************************)
(* The objects of the model, each with the SHA-1 of its record.            *)
(***************************************************************************)
\* the blob 'hello' NL; SHA-1 ce013625030ba8dba906f756967f9e9ca394464a
BlobHello ==
    [fmt |-> FmtBlob,
     data |-> <<104, 101, 108, 108, 111, 10>>,
     sha |-> <<99, 101, 48, 49, 51, 54, 50, 53, 48, 51, 48, 98, 97, 56, 100,
             98, 97, 57, 48, 54, 102, 55, 53, 54, 57, 54, 55, 102, 57, 101,
             57, 99, 97, 51, 57, 52, 52, 54, 52, 97>>]

\* the blob 's208375' NL: its hash shares the first four digits of BlobHello's; SHA-1 ce01c377ac3227f6419877bbb8d4a3138c7b7a06
BlobShare ==
    [fmt |-> FmtBlob,
     data |-> <<115, 50, 48, 56, 51, 55, 53, 10>>,
     sha |-> <<99, 101, 48, 49, 99, 51, 55, 55, 97, 99, 51, 50, 50, 55, 102,
             54, 52, 49, 57, 56, 55, 55, 98, 98, 98, 56, 100, 52, 97, 51, 49,
             51, 56, 99, 55, 98, 55, 97, 48, 54>>]

\* the blob 'z367' NL: its hash starts with a zero byte; SHA-1 00238777f41349011e5bdddd307161ada464adac
BlobZero ==
    [fmt |-> FmtBlob,
     data |-> <<122, 51, 54, 55, 10>>,
     sha |-> <<48, 48, 50, 51, 56, 55, 55, 55, 102, 52, 49, 51, 52, 57, 48,
             49, 49, 101, 53, 98, 100, 100, 100, 100, 51, 48, 55, 49, 54, 49,
             97, 100, 97, 52, 54, 52, 97, 100, 97, 99>>]

\* the tree of (100644, a.txt, BlobHello); SHA-1 2e81171448eb9f2ee3821e3d447aa6b2fe3ddba1
TreeOne ==
    [fmt |-> FmtTree,
     data |-> <<49, 48, 48, 54, 52, 52, 32, 97, 46, 116, 120, 116, 0, 206, 1,
              54, 37, 3, 11, 168, 219, 169, 6, 247, 86, 150, 127, 158, 156,
              163, 148, 70, 74>>,
     sha |-> <<50, 101, 56, 49, 49, 55, 49, 52, 52, 56, 101, 98, 57, 102, 50,
             101, 101, 51, 56, 50, 49, 101, 51, 100, 52, 52, 55, 97, 97, 54,
             98, 50, 102, 101, 51, 100, 100, 98, 97, 49>>]

\* the tree of (100644, z, BlobZero), (40000, d, TreeOne); SHA-1 ae46bd1c30541a1e15f63ce5904dfabd8d170740
TreeTwo ==
    [fmt |-> FmtTree,
     data |-> <<49, 48, 48, 54, 52, 52, 32, 122, 0, 0, 35, 135, 119, 244, 19,
              73, 1, 30, 91, 221, 221, 48, 113, 97, 173, 164, 100, 173, 172,
              52, 48, 48, 48, 48, 32, 100, 0, 46, 129, 23, 20, 72, 235, 159,
              46, 227, 130, 30, 61, 68, 122, 166, 178, 254, 61, 219, 161>>,
     sha |-> <<97, 101, 52, 54, 98, 100, 49, 99, 51, 48, 53, 52, 49, 97, 49,
             101, 49, 53, 102, 54, 51, 99, 101, 53, 57, 48, 52, 100, 102, 97,
             98, 100, 56, 100, 49, 55, 48, 55, 52, 48>>]

\* the commit 'tree <TreeOne>' NL NL 'm' NL; SHA-1 a7a556d18ae785b127ef8dd2ae6793392b5837fa
CommitOne ==
    [fmt |-> FmtCommit,
     data |-> <<116, 114, 101, 101, 32, 50, 101, 56, 49, 49, 55, 49, 52, 52,
              56, 101, 98, 57, 102, 50, 101, 101, 51, 56, 50, 49, 101, 51,
              100, 52, 52, 55, 97, 97, 54, 98, 50, 102, 101, 51, 100, 100,
              98, 97, 49, 10, 10, 109, 10>>,
     sha |-> <<97, 55, 97, 53, 53, 54, 100, 49, 56, 97, 101, 55, 56, 53, 98,
             49, 50, 55, 101, 102, 56, 100, 100, 50, 97, 101, 54, 55, 57, 51,
             51, 57, 50, 98, 53, 56, 51, 55, 102, 97>>]

\* the tag 'object <CommitOne>' NL 'type commit' NL NL 'v' NL; SHA-1 42ddaae1ad05f61cb41e6c9940027ce081e03855
TagOne ==
    [fmt |-> FmtTag,
     data |-> <<111, 98, 106, 101, 99, 116, 32, 97, 55, 97, 53, 53, 54, 100,
              49, 56, 97, 101, 55, 56, 53, 98, 49, 50, 55, 101, 102, 56, 100,
              100, 50, 97, 101, 54, 55, 57, 51, 51, 57, 50, 98, 53, 56, 51,
              55, 102, 97, 10, 116, 121, 112, 101, 32, 99, 111, 109, 109,
              105, 116, 10, 10, 118, 10>>,
     sha |-> <<52, 50, 100, 100, 97, 97, 101, 49, 97, 100, 48, 53, 102, 54,
             49, 99, 98, 52, 49, 101, 54, 99, 57, 57, 52, 48, 48, 50, 55, 99,
             101, 48, 56, 49, 101, 48, 51, 56, 53, 53>>]

\* the tag 'object <BlobHello>' NL 'type blob' NL NL 'b' NL; SHA-1 a680eebf0f70edc37f658fe4e64ca66a2105dcf4
TagBlob ==
    [fmt |-> FmtTag,
     data |-> <<111, 98, 106, 101, 99, 116, 32, 99, 101, 48, 49, 51, 54, 50,
              53, 48, 51, 48, 98, 97, 56, 100, 98, 97, 57, 48, 54, 102, 55,
              53, 54, 57, 54, 55, 102, 57, 101, 57, 99, 97, 51, 57, 52, 52,
              54, 52, 97, 10, 116, 121, 112, 101, 32, 98, 108, 111, 98, 10,
              10, 98, 10>>,
     sha |-> <<97, 54, 56, 48, 101, 101, 98, 102, 48, 102, 55, 48, 101, 100,
             99, 51, 55, 102, 54, 53, 56, 102, 101, 52, 101, 54, 52, 99, 97,
             54, 54, 97, 50, 49, 48, 53, 100, 99, 102, 52>>]


Universe ==
    {BlobHello, BlobShare, BlobZero, TreeOne, TreeTwo, CommitOne, TagOne, TagBlob}

Record(fmt, data) == fmt \o <<SP>> \o DecStr(Len(data)) \o <<NUL>> \o data

\* hashlib.sha1(result).hexdigest(), on the records of the Universe
sha1_hexdigest(result) == (CHOOSE o \in Universe : Record(o.fmt, o.data) = result).sha

(***************************************************************************)
(* object_read and object_write.                                           *)
(***************************************************************************)
\* the record checked and the object built: x and y are the indexes of the first
\* blank and of the NUL after it, size the length the record declares
ReadSized(rec, x, y, size) ==
    IF ~IsOk(size) THEN size
    ELSE IF size.val # Len(rec) - y - 1 THEN Raise("Exception: Malformed object")
    ELSE NewObject(Slice(rec, 0, x), Slice(rec, y + 1, Len(rec)))

ReadHeader(rec, x, y) == ReadSized(rec, x, y, IntParse10(Slice(rec, x, y)))

ReadRecord(rec, x) == ReadHeader(rec, x, Find(rec, NUL, x))

ReadRaw(z) == IF ~IsOk(z) THEN z ELSE ReadRecord(z.val, Find(z.val, SP, 0))

ReadFile(f) == IF ~IsOk(f) THEN f ELSE ReadRaw(zlib_decompress(f.val))

object_read(ds, fs, sha) ==
    ReadFile(OpenRead(fs, repo_file(ds, Slice(sha, 0, 2), From2(sha), FALSE).val))

\* with open(path, 'wb') as f: f.write(zlib.compress(result))
WriteFile(path, f, result, sha) ==
    IF f.exc # "" THEN [exc |-> f.exc, val |-> <<>>, dirs |-> path.dirs, files |-> f.files]
    ELSE [exc |-> "", val |-> sha, dirs |-> path.dirs,
          files |-> MapPut(f.files, path.val, zlib_compress(result))]

WriteAt(fs, path, result, sha) == WriteFile(path, OpenWrite(fs, path.val), result, sha)

WriteHashed(ds, fs, result, sha, actually_write) ==
    IF ~actually_write THEN [exc |-> "", val |-> sha, dirs |-> ds, files |-> fs]
    ELSE WriteAt(fs, repo_file(ds, Slice(sha, 0, 2), From2(sha), actually_write), result, sha)

WriteRecord(ds, fs, result, actually_write) ==
    WriteHashed(ds, fs, result, sha1_hexdigest(result), actually_write)

WriteData(ds, fs, fmt, data, actually_write) ==
    IF ~IsOk(data) THEN [exc |-> data.exc, val |-> <<>>, dirs |-> ds, files |-> fs]
    ELSE WriteRecord(ds, fs, Record(fmt, data.val), actually_write)

\* [exc, val, dirs, files]: the outcome and the store afterwards
object_write(ds, fs, obj, actually_write) ==
    WriteData(ds, fs, obj.fmt, Serialize(obj), actually_write)

\* the store a compatible implementation leaves after writing the objects S
StoreDirs(S) == {Slice(o.sha, 0, 2) : o \in S}

StoreFiles(S) ==
    [p \in {<<Slice(o.sha, 0, 2), Slice(o.sha, 2, 40)>> : o \in S} |->
        LET o == CHOOSE o \in S : p = <<Slice(o.sha, 0, 2), Slice(o.sha, 2, 40)>>
        IN  zlib_compress(Record(o.fmt, o.data))]

\* .git/HEAD as repo_create writes it: 'ref: refs/heads/main' NL
HeadPath == <<72, 69, 65, 68>>

MainPath == <<114, 101, 102, 115, 47, 104, 101, 97, 100, 115, 47, 109, 97, 105, 110>>

RefPrefix == <<114, 101, 102, 58, 32>>

InitialRefs == [p \in {HeadPath} |-> RefPrefix \o MainPath \o <<NL>>]

(***************************************************************************)
(* SpecStore: object_hash / object_write and object_read on a store.       *)
(***************************************************************************)
InitStore ==
    /\ \E S \in SUBSET Universe : dirs = StoreDirs(S) /\ files = StoreFiles(S)
    /\ refs = InitialRefs
    /\ target = Absent
    /\ raw = <<>>
    /\ res = NoCall
    /\ NoProcs

\* object_hash(f, fmt, repo): the object built from the bytes read, then object_write
WriteObject(ds, fs, obj, actually_write) ==
    IF IsOk(obj) THEN object_write(ds, fs, obj.val, actually_write)
    ELSE [exc |-> obj.exc, val |-> <<>>, dirs |-> ds, files |-> fs]

ObjectHash(ds, fs, fmt, data, actually_write) ==
    WriteObject(ds, fs, NewObject(fmt, data), actually_write)

ObjectWrite(o, actually_write) ==
    \E w \in {ObjectHash(dirs, files, o.fmt, o.data, actually_write)} :
        /\ dirs' = w.dirs
        /\ files' = w.files
        /\ res' = Call("object_write",
                       [fmt |-> o.fmt, data |-> o.data, actually_write |-> actually_write],
                       [exc |-> w.exc, val |-> w.val])
        /\ UNCHANGED <<refs, target, raw, wr, rr>>

ObjectRead(sha) ==
    /\ res' = Call("object_read", sha, object_read(dirs, files, sha))
    /\ UNCHANGED <<dirs, files, refs, target, raw, wr, rr>>

NextStore ==
    \/ \E o \in Universe, aw \in BOOLEAN : ObjectWrite(o, aw)
    \/ \E o \in Universe : ObjectRead(o.sha)

SpecStore == InitStore /\ [][NextStore]_vars

\* C1: for each of the four kinds, object_write (actually_write true) of the object
\* built from a well-formed payload p returns a hash on which object_read yields an
\* object of that kind whose serialize() is p.
C1_StoreRoundTrip ==
    (res.op = "object_write" /\ res.arg.actually_write) =>
        /\ IsOk(res.val)
        /\ LET r == object_read(dirs, files, res.val.val)
           IN  /\ IsOk(r)
               /\ r.val.fmt = res.arg.fmt
               /\ Serialize(r.val) = Ok(res.arg.data)

(***************************************************************************)
(* ref_resolve.  RefRead is one call's own work: the file read, its last   *)
(* character trimmed, and the test for an indirection.                     *)
(***************************************************************************)
\* a plausible slip: the content returned with its newline
RefDataUntrimmed(rf, ref) ==
    IF ref = <<>> THEN Raise("IsADirectoryError")
    ELSE IF ref \notin DOMAIN rf THEN Raise("FileNotFoundError")
    ELSE Ok(rf[ref])

\* with open(repo_file(repo, ref), 'r') as f: data = f.read()[:-1]
RefData(rf, ref) ==
    IF ref = <<>> THEN Raise("IsADirectoryError")
    ELSE IF ref \notin DOMAIN rf THEN Raise("FileNotFoundError")
    ELSE Ok(Slice(rf[ref], 0, -1))

\* [exc, val, follow]: follow tells that val is the reference to resolve next
RefOf(d) ==
    IF ~IsOk(d) THEN [exc |-> d.exc, val |-> <<>>, follow |-> FALSE]
    ELSE IF StartsWith(d.val, RefPrefix)
         THEN [exc |-> "", val |-> Slice(d.val, 5, Len(d.val)), follow |-> TRUE]
         ELSE [exc |-> "", val |-> d.val, follow |-> FALSE]

RefRead(rf, ref) == RefOf(RefData(rf, ref))

\* ref_resolve(repo, ref) as one call; a reference met again is a recursion that
\* ends only when the interpreter's stack is exhausted
RECURSIVE RefResolveFrom(_, _, _)
RefResolveNext(rf, ref, seen, r) ==
    IF r.exc # "" THEN Raise(r.exc)
    ELSE IF r.follow THEN RefResolveFrom(rf, r.val, seen \cup {ref})
    ELSE Ok(r.val)

RefResolveFrom(rf, ref, seen) ==
    IF ref \in seen THEN Raise("RecursionError")
    ELSE RefResolveNext(rf, ref, seen, RefRead(rf, ref))

ref_resolve(rf, ref) == RefResolveFrom(rf, ref, {})

(***************************************************************************)
(* object_resolve and object_find.  A list of candidates is kept as the    *)
(* set of its elements: os.listdir gives them in no specified order, and   *)
(* the callers use the length and the element of a one-element list.       *)
(***************************************************************************)
HashReMax == 16
FullHashLen == 40
MinPrefixLen == 4

IsHexChar(c) == HexVal(c) >= 0

\* str.lower()
Lower(t) == [i \in 1..Len(t) |-> IF t[i] >= 65 /\ t[i] <= 90 THEN t[i] + 32 ELSE t[i]]

\* not name.strip()
IsBlank(t) == \A i \in 1..Len(t) : t[i] \in {9, 10, 11, 12, 13, SP}

\* re.compile(r"^[0-9A-Fa-f]{1,16}$").match(name): $ also matches before a last newline
hashRE_match(t) ==
    LET body == IF t # <<>> /\ t[Len(t)] = NL THEN SubSeq(t, 1, Len(t) - 1) ELSE t
    IN  /\ Len(body) >= 1
        /\ Len(body) <= HashReMax
        /\ \A i \in 1..Len(body) : IsHexChar(body[i])

\* os.listdir of a bucket directory
ListDir(fs, bucket) == {p[2] : p \in {q \in DOMAIN fs : q[1] = bucket}}

Candidates(c) == [none |-> FALSE, list |-> c]

NoCandidates == [none |-> TRUE, list |-> {}]

\* return [ref_resolve(repo, "HEAD")]
ListOf(h) == IF IsOk(h) THEN Ok(Candidates({h.val})) ELSE h

\* the scan of the bucket of a lower-cased prefix
ScanBucket(ds, fs, low) ==
    IF repo_dir(ds, Slice(low, 0, 2), FALSE).val # None
    THEN Ok(Candidates({Slice(low, 0, 2) \o f : f \in
            {g \in ListDir(fs, Slice(low, 0, 2)) : StartsWith(g, From2(low))}}))
    ELSE Ok(Candidates({}))

object_resolve(ds, fs, rf, name) ==
    IF IsBlank(name) THEN Ok(NoCandidates)
    ELSE IF name = HeadPath THEN ListOf(ref_resolve(rf, HeadPath))
    ELSE IF hashRE_match(name)
         THEN IF Len(name) = FullHashLen THEN Ok(Candidates({Lower(name)}))
              ELSE IF MinPrefixLen <= Len(name) THEN ScanBucket(ds, fs, Lower(name))
              ELSE Ok(Candidates({}))
    ELSE Ok(Candidates({}))

\* obj.kvlm[key].decode("ascii")
HeaderValue(obj, key) ==
    IF key \notin DictKeys(obj.kvlm) THEN Raise("KeyError")
    ELSE IF DictGet(obj.kvlm, key).list THEN Raise("AttributeError")
    ELSE Ok(DictGet(obj.kvlm, key).v)

KeyObject == <<111, 98, 106, 101, 99, 116>>

KeyTree == <<116, 114, 101, 101>>

NotFound == "Exception: No such reference"

Ambiguous == "Exception: Ambiguous reference"

\* the while True loop of object_find; a hash met again is a loop that never ends
RECURSIVE FindLoop(_, _, _, _, _, _)
\* sha = obj.kvlm[key].decode("ascii"), and the loop again
FindNext(ds, fs, sha, fmt, follow, seen, n) ==
    IF IsOk(n) THEN FindLoop(ds, fs, n.val, fmt, follow, seen \cup {sha}) ELSE n

FindOn(ds, fs, sha, fmt, follow, seen, o) ==
    IF ~IsOk(o) THEN o
    ELSE IF o.val.fmt = fmt THEN Ok(sha)
    ELSE IF ~follow THEN Ok(None)
    ELSE IF o.val.fmt = FmtTag
         THEN FindNext(ds, fs, sha, fmt, follow, seen, HeaderValue(o.val, KeyObject))
    ELSE IF o.val.fmt = FmtCommit /\ fmt = FmtTree
         THEN FindNext(ds, fs, sha, fmt, follow, seen, HeaderValue(o.val, KeyTree))
    ELSE Ok(None)

FindLoop(ds, fs, sha, fmt, follow, seen) ==
    IF sha \in seen THEN Raise("Hang")
    ELSE FindOn(ds, fs, sha, fmt, follow, seen, object_read(ds, fs, sha))

\* the candidate object_find goes on with
OneOf(c) == CHOOSE x \in c : TRUE

\* a plausible slip: several candidates, and one of them taken
FindAmongFirst(ds, fs, c, fmt, follow) ==
    IF ~IsOk(c) THEN c
    ELSE IF c.val.none \/ c.val.list = {} THEN Raise(NotFound)
    ELSE IF fmt = None THEN Ok(OneOf(c.val.list))
    ELSE FindLoop(ds, fs, OneOf(c.val.list), fmt, follow, {})

\* object_find after sha = object_resolve(repo, name); fmt is None or a type tag, and
\* an Ambiguous failure carries the candidates it lists
FindAmong(ds, fs, c, fmt, follow) ==
    IF ~IsOk(c) THEN c
    ELSE IF c.val.none \/ c.val.list = {} THEN Raise(NotFound)
    ELSE IF Cardinality(c.val.list) > 1 THEN [exc |-> Ambiguous, val |-> c.val.list]
    ELSE IF fmt = None THEN Ok(OneOf(c.val.list))
    ELSE FindLoop(ds, fs, OneOf(c.val.list), fmt, follow, {})

\* a plausible slip: the wanted kind looked for without following
object_find_nofollow(ds, fs, rf, name, fmt, follow) ==
    FindAmong(ds, fs, object_resolve(ds, fs, rf, name), fmt, FALSE)

object_find(ds, fs, rf, name, fmt, follow) ==
    FindAmong(ds, fs, object_resolve(ds, fs, rf, name), fmt, follow)

(***************************************************************************)
(* SpecFind: object_resolve and object_find on stores that lack at most    *)
(* MaxMissing objects of the Universe (and on the empty store), with       *)
(* refs/heads/main absent or naming CommitOne.                             *)
(***************************************************************************)
MaxMissing == 2

FindStores == {{}} \cup {S \in SUBSET Universe : Cardinality(Universe \ S) <= MaxMissing}

MainRefs == MapPut(InitialRefs, MainPath, CommitOne.sha \o <<NL>>)

FindRefs == {InitialRefs, MainRefs}

\* str.upper()
Upper(t) == [i \in 1..Len(t) |-> IF t[i] >= 97 /\ t[i] <= 122 THEN t[i] - 32 ELSE t[i]]

PrefixLens == {4, 16, 17, 40}

\* hash prefixes and full hashes, 'CE01C3', 'ce0', 'HEAD', 'refs/heads/main' and ' '
FindNames ==
    {Slice(o.sha, 0, n) : o \in Universe, n \in PrefixLens}
        \cup {Upper(Slice(BlobShare.sha, 0, 6)), Slice(BlobHello.sha, 0, 3),
              HeadPath, MainPath, <<SP>>}

FindFmts == {None, FmtBlob, FmtTree, FmtCommit, FmtTag}

InitFind ==
    /\ \E S \in FindStores : dirs = StoreDirs(S) /\ files = StoreFiles(S)
    /\ refs \in FindRefs
    /\ target = Absent
    /\ raw = <<>>
    /\ res = NoCall
    /\ NoProcs

\* one command is one call: a query starts from a state where none was made
ObjectResolve(name) ==
    /\ res = NoCall
    /\ res' = Call("object_resolve", name, object_resolve(dirs, files, refs, name))
    /\ UNCHANGED <<dirs, files, refs, target, raw, wr, rr>>

ObjectFind(name, fmt, follow) ==
    /\ res = NoCall
    /\ res' = Call("object_find", [name |-> name, fmt |-> fmt, follow |-> follow],
                   object_find(dirs, files, refs, name, fmt, follow))
    /\ UNCHANGED <<dirs, files, refs, target, raw, wr, rr>>

NextFind ==
    \/ \E name \in FindNames : ObjectResolve(name)
    \/ \E name \in FindNames, fmt \in FindFmts, follow \in BOOLEAN : ObjectFind(name, fmt, follow)

SpecFind == InitFind /\ [][NextFind]_vars

\* the hashes of the objects in the store
StoredHashes == {p[1] \o p[2] : p \in DOMAIN files}

IsHexName(t) == t # <<>> /\ \A i \in 1..Len(t) : IsHexChar(t[i])

Matching(name) == {h \in StoredHashes : StartsWith(h, Lower(name))}

\* C4: object_resolve of a full 40-character hexadecimal name returns exactly the
\* name lower-cased, whatever is stored; of a hexadecimal prefix of 4 to 39
\* characters, exactly the stored hashes that start with the lower-cased name.
C4_ResolveCandidates ==
    (res.op = "object_resolve" /\ IsHexName(res.arg)) =>
        /\ Len(res.arg) = 40 => res.val = Ok(Candidates({Lower(res.arg)}))
        /\ (Len(res.arg) >= 4 /\ Len(res.arg) < 40) =>
               res.val = Ok(Candidates(Matching(res.arg)))

\* C5: when the name resolves to no candidate object_find fails with NotFound; when
\* it resolves to two or more, with Ambiguous, listing exactly the matching hashes;
\* the two failures differ and neither returns a hash; with one candidate and no
\* wanted kind it returns that candidate.
C5_FindFailures ==
    res.op = "object_find" =>
        LET c == object_resolve(dirs, files, refs, res.arg.name)
        IN  IsOk(c) =>
                /\ (c.val.none \/ c.val.list = {}) => res.val = Raise(NotFound)
                /\ Cardinality(c.val.list) >= 2 =>
                       /\ res.val.exc = Ambiguous
                       /\ res.val.val = Matching(res.arg.name)
                       /\ Ambiguous # NotFound
                /\ (Cardinality(c.val.list) = 1 /\ res.arg.fmt = None) =>
                       \E h \in c.val.list : res.val = Ok(h)

\* object_find of 'ce01' fails with Ambiguous, listing two hashes
C5_Witness ==
    /\ res.op = "object_find"
    /\ res.val.exc = Ambiguous
    /\ Cardinality(res.val.val) = 2

\* what the payloads of the Universe say: the tree of a commit, the object of a tag
Referent(o) ==
    IF o = CommitOne THEN TreeOne
    ELSE IF o = TagOne THEN CommitOne
    ELSE IF o = TagBlob THEN BlobHello
    ELSE o

Stored(o) == o.sha \in StoredHashes

\* C6: object_find with a wanted kind, on a name that resolves to one stored object:
\* an object of the wanted kind gives its own hash; a mismatch with follow disabled
\* gives no match; with follow enabled and tree wanted, a commit gives the hash of
\* its tree header and a tag of a commit the hash of that commit's tree header (the
\* objects named being stored); where no rule applies (a blob, a tree, a commit when
\* a blob or a tag is wanted, a tag of a blob when a tree or a commit is wanted) it
\* gives no match.  A hash returned names a stored
\* object of the wanted kind.
C6_KindCoercion ==
    (res.op = "object_find" /\ res.arg.fmt # None) =>
        LET c == object_resolve(dirs, files, refs, res.arg.name)
            fmt == res.arg.fmt
            follow == res.arg.follow
        IN  /\ \A o \in Universe :
                  (IsOk(c) /\ c.val.list = {o.sha} /\ Stored(o)) =>
                      /\ o.fmt = fmt => res.val = Ok(o.sha)
                      /\ (o.fmt # fmt /\ ~follow) => res.val = Ok(None)
                      /\ (follow /\ fmt = FmtTree /\ o.fmt = FmtCommit /\ Stored(Referent(o))) =>
                             res.val = Ok(Referent(o).sha)
                      /\ (follow /\ fmt = FmtTree /\ o.fmt = FmtTag
                            /\ Referent(o).fmt = FmtCommit /\ Stored(Referent(o))
                            /\ Stored(Referent(Referent(o)))) =>
                             res.val = Ok(Referent(Referent(o)).sha)
                      /\ (follow /\ o.fmt # fmt /\ o.fmt \in {FmtBlob, FmtTree}) =>
                             res.val = Ok(None)
                      /\ (follow /\ o.fmt = FmtCommit /\ fmt \in {FmtBlob, FmtTag}) =>
                             res.val = Ok(None)
                      /\ (follow /\ o.fmt = FmtTag /\ fmt # FmtTag /\ Stored(Referent(o))
                            /\ Referent(o).fmt = FmtBlob) =>
                             res.val = IF fmt = FmtBlob THEN Ok(Referent(o).sha) ELSE Ok(None)
            /\ (IsOk(res.val) /\ res.val.val # None) =>
                   \E o \in Universe : o.sha = res.val.val /\ Stored(o) /\ o.fmt = fmt

\* the tree of the commit that TagOne names is found from a prefix of TagOne's hash
C6_Witness ==
    /\ res.op = "object_find"
    /\ res.arg.name = Slice(TagOne.sha, 0, 4)
    /\ res.arg.fmt = FmtTree
    /\ res.arg.follow
    /\ res.val = Ok(TreeOne.sha)

(***************************************************************************)
(* SpecRef: ref_resolve, one call frame at a time, on every assignment of  *)
(* contents to three reference files.  rr is the call in progress: the     *)
(* reference it was started on, the one the innermost frame opens, and the *)
(* number of indirections followed so far.                                 *)
(***************************************************************************)
\* the frames the interpreter allows before it raises RecursionError
MaxDepth == 4

DevPath == <<114, 101, 102, 115, 47, 104, 101, 97, 100, 115, 47, 100, 101, 118>>

RefNames == {HeadPath, MainPath, DevPath}

RefHashes == {CommitOne.sha, TreeOne.sha}

RefContents ==
    {h \o <<NL>> : h \in RefHashes} \cup {RefPrefix \o n \o <<NL>> : n \in RefNames}

RefFiles == UNION {[D -> RefContents] : D \in SUBSET RefNames}

InitRef ==
    /\ refs \in RefFiles
    /\ dirs = {}
    /\ files = EmptyMap
    /\ target = Absent
    /\ raw = <<>>
    /\ res = NoCall
    /\ wr = Idle
    /\ rr = Idle

\* ref_resolve(repo, ref) is called
RefResolve(ref) ==
    /\ rr = Idle
    /\ rr' = [pc |-> "open", start |-> ref, ref |-> ref, steps |-> 0, ret |-> Ok(<<>>)]
    /\ UNCHANGED <<dirs, files, refs, target, raw, res, wr>>

\* what a frame does with what it read: fail, call itself on data[5:], or return data
\* (which every frame above returns unchanged)
RefFrame(f, r) ==
    IF r.exc # "" THEN [f EXCEPT !.pc = "done", !.ret = Raise(r.exc)]
    ELSE IF ~r.follow THEN [f EXCEPT !.pc = "done", !.ret = Ok(r.val)]
    ELSE IF f.steps = MaxDepth THEN [f EXCEPT !.pc = "done", !.ret = Raise("RecursionError")]
    ELSE [f EXCEPT !.ref = r.val, !.steps = f.steps + 1]

\* the innermost frame reads its file
RefStep ==
    /\ rr.pc = "open"
    /\ rr' = RefFrame(rr, RefRead(refs, rr.ref))
    /\ UNCHANGED <<dirs, files, refs, target, raw, res, wr>>

NextRef ==
    \/ \E ref \in RefNames : RefResolve(ref)
    \/ RefStep

SpecRef == InitRef /\ [][NextRef]_vars

IsFullHash(h) == Len(h) = FullHashLen /\ \A i \in 1..Len(h) : IsHexChar(h[i])

\* the acyclic chains r0 -> ... -> rn of reference files: each but the last holds
\* 'ref: ' and the path of the next, the last a 40-character hash, each with a newline
RefChains ==
    {c \in SeqsUpTo(RefNames, Cardinality(RefNames)) :
        /\ c # <<>>
        /\ \A i, j \in 1..Len(c) : c[i] = c[j] => i = j
        /\ \A i \in 1..Len(c) : c[i] \in DOMAIN refs
        /\ \A i \in 1..(Len(c) - 1) : refs[c[i]] = RefPrefix \o c[i + 1] \o <<NL>>
        /\ \E h \in RefHashes : IsFullHash(h) /\ refs[c[Len(c)]] = h \o <<NL>>}

\* C7: ref_resolve started on the first file of an acyclic chain r0 -> ... -> rn goes
\* along the chain (after k indirections it opens rk, k <= n) and returns, after
\* exactly n indirections, the 40 characters of the hash in rn without the newline.
C7_RefChain ==
    \A c \in RefChains :
        (rr.pc # "idle" /\ rr.start = c[1]) =>
            /\ rr.steps < Len(c)
            /\ rr.ref = c[rr.steps + 1]
            /\ rr.pc = "done" =>
                   /\ rr.steps = Len(c) - 1
                   /\ rr.ret = Ok(Slice(refs[c[Len(c)]], 0, FullHashLen))

\* HEAD -> refs/heads/main -> refs/heads/dev -> hash resolved in two indirections
C7_Witness ==
    /\ rr.pc = "done"
    /\ rr.start = HeadPath
    /\ <<HeadPath, MainPath, DevPath>> \in RefChains
    /\ rr.steps = 2
    /\ rr.ret = Ok(CommitOne.sha)

\* the reference a file names: its content without 'ref: ' and the newline
RefTarget(content) == Slice(content, Len(RefPrefix), Len(content) - 1)

RECURSIVE ReturnsToVisited(_, _)
\* following the indirections from ref comes back to a reference of seen
ReturnsToVisited(ref, seen) ==
    IF ref \in seen THEN TRUE
    ELSE IF ref \notin DOMAIN refs THEN FALSE
    ELSE IF ~StartsWith(refs[ref], RefPrefix) THEN FALSE
    ELSE ReturnsToVisited(RefTarget(refs[ref]), seen \cup {ref})

\* C11: ref_resolve started on a reference from which the indirections return to a
\* reference already visited (a self-reference included) reports the cycle: it follows
\* no more indirections than there are reference files, and it ends with a failure
\* that is not the exhaustion of the interpreter's stack, never with a value.
C11_RefCycle ==
    (rr.pc # "idle" /\ ReturnsToVisited(rr.start, {})) =>
        /\ rr.steps <= Cardinality(DOMAIN refs)
        /\ rr.pc = "done" => rr.ret.exc \notin {"", "RecursionError"}

(***************************************************************************)
(* tree_checkout and cmd_checkout.  The target path is a node: absent, a   *)
(* file, or a directory with its entries by name.                          *)
(***************************************************************************)
FileNode(data) == [kind |-> "file", data |-> data]

DirNode(entries) == [kind |-> "dir", entries |-> entries]

EmptyDir == DirNode(EmptyMap)

Failed(exc, node) == [exc |-> exc, node |-> node]

\* with open(dst, 'wb') as f: f.write(obj.blobdata)
WriteBlobAt(node, name, data) ==
    IF ~IsOk(data) THEN Failed(data.exc, node)
    ELSE IF name \in DOMAIN node.entries /\ node.entries[name].kind = "dir"
         THEN Failed("IsADirectoryError", node)
    ELSE Failed("", DirNode(MapPut(node.entries, name, FileNode(data.val))))

RECURSIVE CheckoutFrom(_, _, _, _, _)
RECURSIVE tree_checkout(_, _, _, _)
\* after the recursive call on the directory made for item i
CheckoutSub(ds, fs, items, i, node, sub) ==
    IF sub.exc # "" THEN Failed(sub.exc, DirNode(MapPut(node.entries, items[i].path, sub.node)))
    ELSE CheckoutFrom(ds, fs, items, i + 1,
                      DirNode(MapPut(node.entries, items[i].path, sub.node)))

\* after a successful step on item i
CheckoutNext(ds, fs, items, i, w) ==
    IF w.exc # "" THEN w ELSE CheckoutFrom(ds, fs, items, i + 1, w.node)

\* the body of the loop on item i, obj being what object_read gave
CheckoutItem(ds, fs, items, i, node, obj) ==
    IF ~IsOk(obj) THEN Failed(obj.exc, node)
    ELSE IF obj.val.fmt = FmtTree
         THEN IF items[i].path \in DOMAIN node.entries THEN Failed("FileExistsError", node)
              ELSE CheckoutSub(ds, fs, items, i, node, tree_checkout(ds, fs, obj.val, EmptyDir))
    ELSE IF obj.val.fmt = FmtBlob
         THEN CheckoutNext(ds, fs, items, i,
                           WriteBlobAt(node, items[i].path, GetAttr(obj.val, "blobdata")))
    ELSE CheckoutFrom(ds, fs, items, i + 1, node)

CheckoutFrom(ds, fs, items, i, node) ==
    IF i > Len(items) THEN Failed("", node)
    ELSE CheckoutItem(ds, fs, items, i, node, object_read(ds, fs, items[i].sha))

\* for item in <the attribute read>
CheckoutItems(ds, fs, items, node) ==
    IF ~IsOk(items) THEN Failed(items.exc, node) ELSE CheckoutFrom(ds, fs, items.val, 1, node)

\* tree_checkout(repo, tree, path): [exc, node], node being the directory at path
\* afterwards; the loop is over tree.item
tree_checkout(ds, fs, tree, node) == CheckoutItems(ds, fs, GetAttr(tree, "item"), node)

NotADirectory == "Exception: Not a directory"

NotEmpty == "Exception: Not empty"

\* a plausible slip: the directory not listed
PathCheckNoListdir(t) ==
    IF t.kind # "absent"
    THEN IF t.kind # "dir" THEN Failed(NotADirectory, t) ELSE Failed("", t)
    ELSE Failed("", EmptyDir)

\* the checks of args.path, and os.makedirs when it does not exist
PathCheck(t) ==
    IF t.kind # "absent"
    THEN IF t.kind # "dir" THEN Failed(NotADirectory, t)
         ELSE IF DOMAIN t.entries # {} THEN Failed(NotEmpty, t)
         ELSE Failed("", t)
    ELSE Failed("", EmptyDir)

CheckoutInto(ds, fs, obj, p) ==
    IF p.exc # "" THEN p ELSE tree_checkout(ds, fs, obj, p.node)

CheckoutTree(ds, fs, t, obj) ==
    IF ~IsOk(obj) THEN Failed(obj.exc, t) ELSE CheckoutInto(ds, fs, obj.val, PathCheck(t))

\* obj = object_read(repo, obj.kvlm[b'tree'].decode("ascii"))
CheckoutTreeOf(ds, fs, t, h) ==
    IF ~IsOk(h) THEN Failed(h.exc, t) ELSE CheckoutTree(ds, fs, t, object_read(ds, fs, h.val))

CheckoutObject(ds, fs, t, obj) ==
    IF ~IsOk(obj) THEN Failed(obj.exc, t)
    ELSE IF obj.val.fmt = FmtCommit THEN CheckoutTreeOf(ds, fs, t, HeaderValue(obj.val, KeyTree))
    ELSE CheckoutTree(ds, fs, t, obj)

\* obj = object_read(repo, object_find(repo, args.commit))
CheckoutFound(ds, fs, t, sha) ==
    IF ~IsOk(sha) THEN Failed(sha.exc, t) ELSE CheckoutObject(ds, fs, t, object_read(ds, fs, sha.val))

\* cmd_checkout with args.commit = commit and args.path the node t: [exc, node]
cmd_checkout(ds, fs, rf, t, commit) ==
    CheckoutFound(ds, fs, t, object_find(ds, fs, rf, commit, None, TRUE))

(***************************************************************************)
(* SpecCheckout: cmd_checkout of a name into a target that is absent, a    *)
(* file, an empty directory or a directory with one file.                  *)
(***************************************************************************)
NameX == <<120>>

CheckoutTargets ==
    {Absent, FileNode(NameX), EmptyDir, DirNode([n \in {NameX} |-> FileNode(<<>>)])}

\* a 6-character prefix of every hash, 'ce01' (two objects), 'ffff' (none) and 'HEAD'
CheckoutNames ==
    {Slice(o.sha, 0, 6) : o \in Universe}
        \cup {Slice(BlobHello.sha, 0, 4), <<102, 102, 102, 102>>, HeadPath}

InitCheckout ==
    /\ \E S \in FindStores : dirs = StoreDirs(S) /\ files = StoreFiles(S)
    /\ refs \in FindRefs
    /\ target \in CheckoutTargets
    /\ raw = <<>>
    /\ res = NoCall
    /\ NoProcs

Checkout(name) ==
    \E c \in {cmd_checkout(dirs, files, refs, target, name)} :
        /\ target' = c.node
        /\ res' = Call("cmd_checkout", name, [exc |-> c.exc, val |-> <<>>])
        /\ UNCHANGED <<dirs, files, refs, raw, wr, rr>>

NextCheckout == \E name \in CheckoutNames : Checkout(name)

SpecCheckout == InitCheckout /\ [][NextCheckout]_vars

\* the name resolves to one stored object, whose tree, if it is a commit, is stored
Resolves(name) ==
    \E o \in Universe :
        /\ Stored(o)
        /\ object_resolve(dirs, files, refs, name) = Ok(Candidates({o.sha}))
        /\ o.fmt = FmtCommit => Stored(Referent(o))

Occupied(t) == t.kind = "file" \/ (t.kind = "dir" /\ DOMAIN t.entries # {})

\* C8 as the specification states it: cmd_checkout into a non-empty directory fails
\* with 'Not empty', into a path that is not a directory with 'Not a directory', and
\* the target and the store are left as they were.
C8_AnyCommit ==
    [][(res'.op = "cmd_checkout" /\ Occupied(target)) =>
          /\ res'.val.exc = (IF target.kind = "dir" THEN NotEmpty ELSE NotADirectory)
          /\ target' = target /\ dirs' = dirs /\ files' = files /\ refs' = refs]_vars

\* C8, amended: cmd_checkout into a non-empty directory or a path that is not a
\* directory fails and leaves the target and the store as they were; the failure is
\* 'Not empty' (resp. 'Not a directory') when the commit argument resolves to one
\* stored object (whose tree, for a commit, is stored), and otherwise the failure of
\* resolving or reading it.
C8_Precondition ==
    [][(res'.op = "cmd_checkout" /\ Occupied(target)) =>
          /\ res'.val.exc # ""
          /\ Resolves(res'.arg) =>
                 res'.val.exc = (IF target.kind = "dir" THEN NotEmpty ELSE NotADirectory)
          /\ target' = target /\ dirs' = dirs /\ files' = files /\ refs' = refs]_vars

\* a checkout of TreeOne into the directory that holds x has failed with 'Not empty'
C8_Witness ==
    /\ res.op = "cmd_checkout"
    /\ res.arg = Slice(TreeOne.sha, 0, 6)
    /\ res.val.exc = NotEmpty
    /\ target = DirNode([n \in {NameX} |-> FileNode(<<>>)])

\* the entries of the trees of the Universe, as their payloads give them
TreeChildren(o) ==
    IF o = TreeOne THEN {<<<<97, 46, 116, 120, 116>>, BlobHello>>}
    ELSE IF o = TreeTwo THEN {<<<<122>>, BlobZero>>, <<<<100>>, TreeOne>>}
    ELSE {}

RECURSIVE Closed(_)
\* every object a tree refers to, directly or not, is stored
Closed(T) == \A e \in TreeChildren(T) : Stored(e[2]) /\ Closed(e[2])

RECURSIVE Materialized(_)
\* one file per blob entry, one directory per tree entry, and nothing else
Materialized(T) ==
    [n \in {e[1] : e \in TreeChildren(T)} |->
        IF (CHOOSE e \in TreeChildren(T) : e[1] = n)[2].fmt = FmtTree
        THEN DirNode(Materialized((CHOOSE e \in TreeChildren(T) : e[1] = n)[2]))
        ELSE FileNode((CHOOSE e \in TreeChildren(T) : e[1] = n)[2].data)]

\* the name resolves to the stored tree T or to a stored commit whose tree is T
NamesTree(name, T) ==
    \E o \in Universe :
        /\ Stored(o) /\ Stored(T)
        /\ object_resolve(dirs, files, refs, name) = Ok(Candidates({o.sha}))
        /\ o = T \/ (o.fmt = FmtCommit /\ Referent(o) = T)

\* C9: cmd_checkout of a tree T (or of a commit whose tree is T), every object T
\* refers to being stored, into an absent or empty target completes and leaves the
\* target holding exactly the files and directories of T.
C9_Materialization ==
    [][\A T \in {TreeOne, TreeTwo} :
          (/\ res'.op = "cmd_checkout"
           /\ target \in {Absent, EmptyDir}
           /\ NamesTree(res'.arg, T)
           /\ Closed(T)) =>
              /\ res'.val.exc = ""
              /\ target' = DirNode(Materialized(T))]_vars

(***************************************************************************)
(* SpecRace: two calls of object_write(obj, True) at once, each a process  *)
(* of wr that takes the steps of object_write and of repo_dir one at a     *)
(* time: serialize and hash, os.path.exists, os.makedirs, open, write.     *)
(***************************************************************************)
Writers == {1, 2}

RaceStores == SUBSET {BlobZero, BlobShare}

InitRace ==
    /\ \E S \in RaceStores : dirs = StoreDirs(S) /\ files = StoreFiles(S)
    /\ refs = InitialRefs
    /\ target = Absent
    /\ raw = <<>>
    /\ res = NoCall
    /\ NoProcs

Writer(o) == [pc |-> "serialize", fmt |-> o.fmt, data |-> o.data,
              result |-> <<>>, sha |-> <<>>, ret |-> Ok(<<>>)]

\* the two calls begin; wr.before is the set of bucket directories they begin on
Spawn(o1, o2) ==
    /\ wr = Idle
    /\ wr' = [pc |-> "run", before |-> dirs, procs |-> <<Writer(o1), Writer(o2)>>]
    /\ UNCHANGED <<dirs, files, refs, target, raw, res, rr>>

At_(w, pc) == wr.pc = "run" /\ wr.procs[w].pc = pc

Goto(w, p) == wr' = [wr EXCEPT !.procs[w] = p]

Bucket(p) == Slice(p.sha, 0, 2)

PathOf(p) == <<Slice(p.sha, 0, 2), From2(p.sha)>>

\* data = obj.serialize(); result = ...; sha = hashlib.sha1(result).hexdigest()
Hashed(p, data) ==
    IF ~IsOk(data) THEN [p EXCEPT !.pc = "done", !.ret = Raise(data.exc)]
    ELSE [p EXCEPT !.pc = "exists", !.result = Record(p.fmt, data.val),
                   !.sha = sha1_hexdigest(Record(p.fmt, data.val))]

Built(p, obj) == IF ~IsOk(obj) THEN [p EXCEPT !.pc = "done", !.ret = Raise(obj.exc)]
                 ELSE Hashed(p, Serialize(obj.val))

WriteSerialize(w) ==
    /\ At_(w, "serialize")
    /\ Goto(w, Built(wr.procs[w], NewObject(wr.procs[w].fmt, wr.procs[w].data)))
    /\ UNCHANGED <<dirs, files, refs, target, raw, res, rr>>

\* repo_dir: if os.path.exists(path) ... return path; else on to os.makedirs
WriteExists(w) ==
    /\ At_(w, "exists")
    /\ Goto(w, [wr.procs[w] EXCEPT !.pc = IF Bucket(wr.procs[w]) \in dirs
                                          THEN "open" ELSE "makedirs"])
    /\ UNCHANGED <<dirs, files, refs, target, raw, res, rr>>

\* os.makedirs(path): FileExistsError when the directory is there by now
WriteMakedirs(w) ==
    /\ At_(w, "makedirs")
    /\ IF Bucket(wr.procs[w]) \in dirs
       THEN /\ Goto(w, [wr.procs[w] EXCEPT !.pc = "done", !.ret = Raise("FileExistsError")])
            /\ UNCHANGED dirs
       ELSE /\ Goto(w, [wr.procs[w] EXCEPT !.pc = "open"])
            /\ dirs' = dirs \cup {Bucket(wr.procs[w])}
    /\ UNCHANGED <<files, refs, target, raw, res, rr>>

\* open(path, 'wb'): the file created or emptied
WriteOpen(w) ==
    /\ At_(w, "open")
    /\ Goto(w, [wr.procs[w] EXCEPT !.pc = "write"])
    /\ files' = OpenWrite(files, PathOf(wr.procs[w])).files
    /\ UNCHANGED <<dirs, refs, target, raw, res, rr>>

\* f.write(zlib.compress(result)), the file closed, and return sha
WriteFlush(w) ==
    /\ At_(w, "write")
    /\ Goto(w, [wr.procs[w] EXCEPT !.pc = "done", !.ret = Ok(wr.procs[w].sha)])
    /\ files' = MapPut(files, PathOf(wr.procs[w]), zlib_compress(wr.procs[w].result))
    /\ UNCHANGED <<dirs, refs, target, raw, res, rr>>

NextRace ==
    \/ \E o1, o2 \in Universe : Spawn(o1, o2)
    \/ \E w \in Writers : WriteSerialize(w)
    \/ \E w \in Writers : WriteExists(w)
    \/ \E w \in Writers : WriteMakedirs(w)
    \/ \E w \in Writers : WriteOpen(w)
    \/ \E w \in Writers : WriteFlush(w)

SpecRace == InitRace /\ [][NextRace]_vars

\* the object a writer was given, in the Universe
Given(p) == CHOOSE o \in Universe : o.fmt = p.fmt /\ o.data = p.data

\* both writers write a blob or a tree, into one bucket that was not there
SameFreshBucket ==
    /\ wr.pc = "run"
    /\ \A w \in Writers : wr.procs[w].fmt \in {FmtBlob, FmtTree}
    /\ Slice(Given(wr.procs[1]).sha, 0, 2) = Slice(Given(wr.procs[2]).sha, 0, 2)
    /\ Slice(Given(wr.procs[1]).sha, 0, 2) \notin wr.before

IsStored(o, r) == IsOk(r) /\ r.val.fmt = o.fmt /\ Serialize(r.val) = Ok(o.data)

\* C10: two writers of blobs or trees (different or identical) whose hashes share a
\* bucket that does not exist when they begin: under every interleaving neither fails
\* (in particular not with FileExistsError), and when both are done both objects are
\* stored and readable.
C10_ConcurrentWrites ==
    SameFreshBucket =>
        /\ \A w \in Writers : wr.procs[w].pc = "done" => wr.procs[w].ret = Ok(Given(wr.procs[w]).sha)
        /\ (\A w \in Writers : wr.procs[w].pc = "done") =>
               \A w \in Writers :
                   IsStored(Given(wr.procs[w]),
                            object_read(dirs, files, Given(wr.procs[w]).sha))

====
